---- MODULE Spec2Model ----
(***************************************************************************)
(* Label hierarchy and few-shot example selection of few_shot_dataset.py.  *)
(*                                                                         *)
(* Text is modelled as a sequence of atoms.  An atom is a run of           *)
(* characters holding none of the separators '_', '.', '/', or it is one   *)
(* of these separators.  "LLM_RAG_2024.json" is                            *)
(* <<"LLM","_","RAG","_","2024",".","json">>.                              *)
(***************************************************************************)
EXTENDS Integers, Sequences, FiniteSets, TLC

VARIABLES
  nodes,        \* LabelHierarchy.nodes: label name -> LabelNode
  keys,         \* the key order of the nodes dict (insertion order)
  root_labels,  \* LabelHierarchy.root_labels
  calls,        \* number of add_label_from_filename calls made
  last,         \* the last add_label_from_filename call
  walk,         \* the frame of a running get_path_to_root
  build,        \* the frame of a running build_label_hierarchy
  dumped,       \* the outcome of to_dict
  analyzed_data,   \* FewShotDataset.analyzed_data: item ID -> content text
  label_examples,  \* FewShotDataset.label_examples: label -> candidate pool
  examples,        \* FewShotDataset.examples: the selected examples
  gen,          \* the frame of a running generate_examples
  prompt        \* the outcome of generate_prompt

vars == <<nodes, keys, root_labels, calls, last, walk, build, dumped,
          analyzed_data, label_examples, examples, gen, prompt>>

hvars == <<nodes, keys, root_labels>>

dvars == <<analyzed_data, label_examples, examples, gen, prompt>>

(***************************************************************************)
(* Bounds of the model.                                                    *)
(***************************************************************************)
MaxCalls == 3
MaxParts == 3
MaxId == 1
MaxWalk == 5
MaxFiles == 2
MaxMin == 2
MaxMax == 2
MaxNum == 3
MaxSwap == 0

(***************************************************************************)
(* Python values.                                                          *)
(***************************************************************************)
\* None, as a value no text is equal to.
None == <<"<None>">>

\* Truth value of an Optional[str]: None and the empty string are false.
Truthy(s) == s # None /\ s # <<>>

\* Atoms whose first character is a decimal digit.
DigitAtoms == {"2024"}

(***************************************************************************)
(* String helpers.                                                         *)
(***************************************************************************)
RECURSIVE SplitFrom(_, _, _, _)
SplitFrom(s, sep, i, cur) ==
  IF i > Len(s) THEN <<cur>>
  ELSE IF s[i] = sep THEN <<cur>> \o SplitFrom(s, sep, i + 1, <<>>)
  ELSE SplitFrom(s, sep, i + 1, Append(cur, s[i]))

\* str.split(sep): always at least one part, empty parts kept.
Split(s, sep) == SplitFrom(s, sep, 1, <<>>)

RECURSIVE Join(_, _)
\* sep.join(parts)
Join(parts, sep) ==
  IF parts = <<>> THEN <<>>
  ELSE IF Len(parts) = 1 THEN parts[1]
  ELSE parts[1] \o <<sep>> \o Join(Tail(parts), sep)

\* os.path.basename: what follows the last '/'.
Basename(filename) ==
  LET ps == Split(filename, "/") IN ps[Len(ps)]

\* part.split('.')[0]
StripExt(s) == Split(s, ".")[1]

\* A variant that takes no part for a date.
StartsWithDigitNever(part) == FALSE

\* part[0].isdigit(), for a non-empty part.
StartsWithDigit(part) == part[1] \in DigitAtoms

\* parts[:n]
Take(s, n) == SubSeq(s, 1, IF Len(s) < n THEN Len(s) ELSE n)

SeqToSet(s) == {s[i] : i \in 1..Len(s)}

\* list(reversed(s))
Reverse(s) == [i \in 1..Len(s) |-> s[Len(s) + 1 - i]]

Distinct(s) == \A i, j \in 1..Len(s) : i # j => s[i] # s[j]

(***************************************************************************)
(* LabelHierarchy                                                          *)
(***************************************************************************)
\* self.single_labels
single_labels == {<<"good", "_", "material">>, <<"daily", "_", "news">>}

\* LabelNode(name=..., parent=p, children=[], email_ids=ids); the name is the key.
LabelNode(p, ids) == [parent |-> p, children |-> <<>>, email_ids |-> ids]

\* The hierarchy as one value: nodes (a dict: the mapping and its key order)
\* and root_labels.
Hierarchy(ns, ks, rs) == [nodes |-> ns, keys |-> ks, root_labels |-> rs]

EmptyHierarchy == Hierarchy(<<>>, <<>>, <<>>)

\* A variant that finds no name among the nodes.
HasNodeNever(h, name) == FALSE

\* A variant that finds a name only among the roots.
HasNodeRootsOnly(h, name) ==
  \E i \in 1..Len(h.root_labels) : h.root_labels[i] = name

\* `name in self.nodes`
HasNode(h, name) == name \in DOMAIN h.nodes

\* self.nodes[name] = node: a new key goes last, an old key keeps its place.
PutNode(h, name, node) ==
  [h EXCEPT !.nodes = [k \in DOMAIN h.nodes \cup {name} |->
                          IF k = name THEN node ELSE h.nodes[k]],
            !.keys = IF name \in DOMAIN h.nodes THEN @ ELSE Append(@, name)]

\* A variant that puts the supplied IDs in the place of the set.
UpdateIdsReplace(h, name, ids) ==
  [h EXCEPT !.nodes[name].email_ids = ids]

\* A variant that adds no ID.
UpdateIdsNone(h, name, ids) == h

\* self.nodes[name].email_ids.update(ids)
UpdateIds(h, name, ids) ==
  [h EXCEPT !.nodes[name].email_ids = @ \cup ids]

RECURSIVE UpdatePath(_, _, _)
\* for path_label in current_path: self.nodes[path_label].email_ids.update(ids)
UpdatePath(h, path, ids) ==
  IF path = <<>> THEN h
  ELSE UpdatePath(UpdateIds(h, path[1], ids), Tail(path), ids)

\* The parts that survive the date filter, or the index error of part[0] on an
\* empty part.
RECURSIVE FilterParts(_)
FilterParts(parts) ==
  IF parts = <<>> THEN [raised |-> FALSE, label_parts |-> <<>>]
  ELSE IF parts[1] = <<>> THEN [raised |-> TRUE, label_parts |-> <<>>]
  ELSE LET rest == FilterParts(Tail(parts)) IN
       IF rest.raised THEN rest
       ELSE IF ~StartsWithDigit(parts[1])
            THEN [rest EXCEPT !.label_parts = <<parts[1]>> \o @]
            ELSE rest

\* '_'.join(label_parts[:2]).split('.')[0]
CombinedLabel(label_parts) == StripExt(Join(Take(label_parts, 2), "_"))

\* A variant that lists the label among the roots on every call.
AddSingleAppend(h, combined_label, ids) ==
  [(IF combined_label \notin DOMAIN h.nodes
    THEN PutNode(h, combined_label, LabelNode(None, ids))
    ELSE UpdateIds(h, combined_label, ids))
     EXCEPT !.root_labels = Append(@, combined_label)]

\* A variant that replaces the ID set of the label by the supplied IDs.
AddSingleReplace(h, combined_label, ids) ==
  IF ~HasNode(h, combined_label)
  THEN [PutNode(h, combined_label, LabelNode(None, ids))
          EXCEPT !.root_labels = Append(@, combined_label)]
  ELSE [h EXCEPT !.nodes[combined_label].email_ids = ids]

\* The special case of a single label.
AddSingle(h, combined_label, ids) ==
  IF ~HasNode(h, combined_label)
  THEN [PutNode(h, combined_label, LabelNode(None, ids))
          EXCEPT !.root_labels = Append(@, combined_label)]
  ELSE UpdateIds(h, combined_label, ids)

\* A variant that never links the new node into its parent's children.
RegisterNoChild(h, clean_part, current_parent) ==
  LET h1 == PutNode(h, clean_part, LabelNode(current_parent, {})) IN
  IF Truthy(current_parent) THEN h1
  ELSE [h1 EXCEPT !.root_labels = Append(@, clean_part)]

\* Registration of a new node under its parent or among the roots.
Register(h, clean_part, current_parent) ==
  LET h1 == PutNode(h, clean_part, LabelNode(current_parent, {})) IN
  IF Truthy(current_parent)
  THEN IF clean_part \notin SeqToSet(h1.nodes[current_parent].children)
       THEN [h1 EXCEPT !.nodes[current_parent].children = Append(@, clean_part)]
       ELSE h1
  ELSE IF clean_part \notin SeqToSet(h1.root_labels)
       THEN [h1 EXCEPT !.root_labels = Append(@, clean_part)]
       ELSE h1

RECURSIVE AddParts(_, _, _, _, _)
\* The loop over label_parts of a hierarchical filename.
AddParts(h, label_parts, current_parent, current_path, ids) ==
  IF label_parts = <<>> THEN h
  ELSE LET clean_part == StripExt(label_parts[1])
           path == Append(current_path, clean_part)
           h1 == IF ~HasNode(h, clean_part)
                 THEN Register(h, clean_part, current_parent)
                 ELSE h
           h2 == UpdatePath(h1, path, ids)
       IN AddParts(h2, Tail(label_parts), clean_part, path, ids)

\* add_label_from_filename: the hierarchy after the call and whether it raised.
add_label_from_filename(h, filename, email_ids) ==
  LET parts == Split(Basename(filename), "_")
      f == FilterParts(parts)
      combined_label == CombinedLabel(f.label_parts)
  IN IF f.raised THEN [raised |-> TRUE, h |-> h]
     ELSE IF combined_label \in single_labels
          THEN [raised |-> FALSE, h |-> AddSingle(h, combined_label, email_ids)]
          ELSE [raised |-> FALSE,
                h |-> AddParts(h, f.label_parts, None, <<>>, email_ids)]

(***************************************************************************)
(* Inputs.                                                                 *)
(***************************************************************************)
\* The words label parts are made of.
Words == {<<"LLM">>, <<"good">>, <<"material">>}

WordSeqs == UNION {[1..n -> Words] : n \in 1..MaxParts}

\* The trailing date stamp and extension of a dump file.
Stamp == <<"_", "2024", ".", "json">>

\* Dump files named label1_label2..._YYYYMMDD.ext
DumpNames == {Join(ws, "_") \o Stamp : ws \in WordSeqs}

\* Names off the pattern: no stamp, an extension on a word, an empty part, the
\* empty name, a part that is an extension only (first and in the middle), a
\* stamp that comes first or in the middle, a directory prefix, a stamp only.
OddNames ==
  { <<"LLM", "_", "good">>,
    <<"material", ".", "json">>,
    <<"LLM", "_", "_", "good", ".", "json">>,
    <<>>,
    <<".", "json", "_", "good">>,
    <<"LLM", "_", ".", "json", "_", "good">>,
    <<"2024", "_", "LLM", "_", "good", ".", "json">>,
    <<"LLM", "_", "2024", "_", "material">>,
    <<"dumps", "/", "material", "_", "good", ".", "json">>,
    <<"2024", ".", "json">> }

FileNames == DumpNames \cup OddNames

IDs == 1..MaxId

IdLists == SUBSET IDs

(***************************************************************************)
(* Hierarchy construction: any sequence of add_label_from_filename calls.  *)
(***************************************************************************)
H == Hierarchy(nodes, keys, root_labels)

\* The last call made: its arguments and whether it raised.
NoCall == [filename |-> <<>>, email_ids |-> {}, raised |-> FALSE]

NoWalk == [pc |-> "idle", label |-> <<>>, path |-> <<>>, current |-> <<>>,
           result |-> <<>>]

NoBuild == [pc |-> "idle", listing |-> <<>>, i |-> 0, outcome |-> "none"]

\* to_dict not yet called.
NoDump == [pc |-> "idle", value |-> <<>>]

\* generate_examples not yet called: the frame of its locals.
NoGen == [pc |-> "idle", min |-> 0, given |-> FALSE, max |-> 0,
          set_order |-> <<>>,
          sorted_labels |-> <<>>, li |-> 0, ci |-> 0, added_count |-> 0,
          total_tokens |-> 0, examples_added |-> {}, refused |-> {}]

NoPrompt == [pc |-> "idle", num_examples |-> 0, selected |-> <<>>, text |-> <<>>]

\* FewShotDataset.__init__ on no analyzed data; no dataset in use.
NoDataset ==
  /\ analyzed_data = <<>>
  /\ label_examples = <<>>
  /\ examples = <<>>
  /\ gen = NoGen
  /\ prompt = NoPrompt

Init ==
  /\ nodes = <<>>
  /\ keys = <<>>
  /\ root_labels = <<>>
  /\ calls = 0
  /\ last = NoCall
  /\ walk = NoWalk
  /\ build = NoBuild
  /\ dumped = NoDump
  /\ NoDataset

AddLabel ==
  /\ calls < MaxCalls
  /\ \E filename \in FileNames, email_ids \in IdLists :
       LET r == add_label_from_filename(H, filename, email_ids) IN
       /\ nodes' = r.h.nodes
       /\ keys' = r.h.keys
       /\ root_labels' = r.h.root_labels
       /\ last' = [filename |-> filename, email_ids |-> email_ids,
                   raised |-> r.raised]
  /\ calls' = calls + 1
  /\ UNCHANGED <<walk, build, dumped, dvars>>

Next == AddLabel

Spec == Init /\ [][Next]_vars

(***************************************************************************)
(* get_path_to_root, one loop iteration at a time, on a hierarchy whose    *)
(* parent links were set through the public nodes mapping and may hold a   *)
(* cycle.                                                                  *)
(***************************************************************************)
\* The labels a path is asked for: the words and a label that is no node.
QueryLabels == Words \cup {<<"unknown">>}

\* Every assignment of a parent (a word or None) to the three words.
ParentMaps == [Words -> Words \cup {None}]

KeyOrder == <<<<"LLM">>, <<"good">>, <<"material">>>>

\* The children list of p under a parent map: the keys whose parent is p.
RECURSIVE ChildrenOf(_, _, _)
ChildrenOf(pm, ks, p) ==
  IF ks = <<>> THEN <<>>
  ELSE (IF pm[ks[1]] = p THEN <<ks[1]>> ELSE <<>>) \o ChildrenOf(pm, Tail(ks), p)

InitPath ==
  /\ \E pm \in ParentMaps :
       /\ nodes = [n \in Words |->
                     [parent |-> pm[n], children |-> ChildrenOf(pm, KeyOrder, n),
                      email_ids |-> {}]]
       /\ root_labels = ChildrenOf(pm, KeyOrder, None)
  /\ keys = KeyOrder
  /\ calls = 0
  /\ last = NoCall
  /\ walk = NoWalk
  /\ build = NoBuild
  /\ dumped = NoDump
  /\ NoDataset

\* Lines 91-94: the unknown label returns [], a known one starts the walk.
PathStart ==
  /\ walk.pc = "idle"
  /\ \E label \in QueryLabels :
       walk' = IF label \notin DOMAIN nodes
               THEN [NoWalk EXCEPT !.pc = "done", !.label = label]
               ELSE [pc |-> "loop", label |-> label, path |-> <<label>>,
                     current |-> label, result |-> <<>>]
  /\ UNCHANGED <<hvars, calls, last, dumped, build, dvars>>

\* Lines 95-97: one iteration of `while current.parent`.
PathStep ==
  /\ walk.pc = "loop"
  /\ Truthy(nodes[walk.current].parent)
  /\ Len(walk.path) < MaxWalk
  /\ walk' = IF nodes[walk.current].parent \in DOMAIN nodes
             THEN [walk EXCEPT !.path = Append(@, nodes[walk.current].parent),
                               !.current = nodes[walk.current].parent]
             ELSE [walk EXCEPT !.pc = "raised"]
  /\ UNCHANGED <<hvars, calls, last, dumped, build, dvars>>

\* Line 98: the loop is left when the current node has no parent.
PathReturn ==
  /\ walk.pc = "loop"
  /\ ~Truthy(nodes[walk.current].parent)
  /\ walk' = [walk EXCEPT !.pc = "done", !.result = Reverse(walk.path)]
  /\ UNCHANGED <<hvars, calls, last, dumped, build, dvars>>

NextPath == PathStart \/ PathStep \/ PathReturn

SpecPath == InitPath /\ [][NextPath]_vars

\* The queried label lies on, or leads into, a parent cycle.
RECURSIVE ReachesCycle(_, _)
ReachesCycle(n, seen) ==
  /\ n \in DOMAIN nodes
  /\ \/ n \in seen
     \/ ReachesCycle(nodes[n].parent, seen \cup {n})

\* C2: on a hierarchy with a parent cycle reachable from the queried label,
\* get_path_to_root ends in a fatal error as soon as a node is revisited: a
\* walk that is still running, or that has returned, never holds a path in
\* which a node occurs twice.
C2_CycleDetected ==
  (walk.pc \in {"loop", "done"} /\ ReachesCycle(walk.label, {}))
    => Distinct(walk.path)

(***************************************************************************)
(* build_label_hierarchy, one directory entry at a time.                   *)
(***************************************************************************)
\* The names the module's import statements bind.
ImportedNames == {"BaseModel", "field_serializer", "Dict", "List", "Optional",
                  "Set", "json", "os", "tiktoken"}

\* An object of a dump file that has no 'id' field.
NoId == 0

\* What a dump file holds: nothing that can be opened, text that is no JSON,
\* a JSON list of objects or a single JSON object; items are the objects' ids.
FileContents ==
  {[kind |-> k, items |-> <<>>] : k \in {"unreadable", "text", "list"}}
    \cup {[kind |-> k, items |-> <<x>>] :
             k \in {"list", "object"}, x \in IDs \cup {NoId}}

\* The entries of the dumps directory: two hierarchical dumps, a single-label
\* dump, a dump with an empty part and an entry that is no .json file.
DirNames ==
  { <<"LLM", "_", "good">> \o Stamp,
    <<"material", "_", "good">> \o Stamp,
    <<"good", "_", "material">> \o Stamp,
    <<"LLM", "_", "_", "good", ".", "json">>,
    <<"LLM", "_", "good">> }

DirEntries == [name : DirNames, content : FileContents]

\* os.listdir: the entries in any order, no name twice.
Listings ==
  {l \in UNION {[1..n -> DirEntries] : n \in 1..MaxFiles} :
     \A i, j \in 1..Len(l) : i # j => l[i].name # l[j].name}

\* filename.endswith('.json')
EndsWithJson(filename) ==
  /\ Len(filename) >= 2
  /\ filename[Len(filename) - 1] = "."
  /\ filename[Len(filename)] = "json"

\* Lines 327-332: open, json.load and the collection of the ids.
ReadIds(content) ==
  IF content.kind \in {"unreadable", "text"}
  THEN [raised |-> TRUE, email_ids |-> {}]
  ELSE IF NoId \in SeqToSet(content.items)
       THEN [raised |-> TRUE, email_ids |-> {}]
       ELSE [raised |-> FALSE, email_ids |-> SeqToSet(content.items)]

\* Lines 326-333: the body of the try block for one .json file.
TryFile(h, entry) ==
  LET ids == ReadIds(entry.content) IN
  IF ids.raised THEN [raised |-> TRUE, h |-> h]
  ELSE add_label_from_filename(h, entry.name, ids.email_ids)

\* Lines 334-336: the handler prints the error and then calls
\* traceback.print_exc(); a name the module does not bind raises NameError.
ExceptHandler ==
  IF "traceback" \in ImportedNames THEN "handled" ELSE "NameError"

\* Lines 321-323: a fresh hierarchy and the directory listing.
BuildStart ==
  /\ build.pc = "idle"
  /\ nodes = <<>> /\ keys = <<>> /\ root_labels = <<>>
  /\ \E listing \in Listings :
       build' = [pc |-> "loop", listing |-> listing, i |-> 1, outcome |-> "none"]
  /\ UNCHANGED <<hvars, calls, last, dumped, walk, dvars>>

\* Lines 323-336: one iteration of the loop over the listing.
BuildFile ==
  /\ build.pc = "loop"
  /\ build.i <= Len(build.listing)
  /\ LET entry == build.listing[build.i]
         r == TryFile(H, entry)
     IN IF ~EndsWithJson(entry.name)
        THEN /\ build' = [build EXCEPT !.i = @ + 1]
             /\ UNCHANGED hvars
        ELSE IF ~r.raised
        THEN /\ build' = [build EXCEPT !.i = @ + 1]
             /\ nodes' = r.h.nodes
             /\ keys' = r.h.keys
             /\ root_labels' = r.h.root_labels
        ELSE IF ExceptHandler = "handled"
        THEN /\ build' = [build EXCEPT !.i = @ + 1]
             /\ UNCHANGED hvars
        ELSE /\ build' = [build EXCEPT !.pc = "done", !.outcome = "raised"]
             /\ UNCHANGED hvars
  /\ UNCHANGED <<calls, last, dumped, walk, dvars>>

\* Line 338: return hierarchy.
BuildReturn ==
  /\ build.pc = "loop"
  /\ build.i > Len(build.listing)
  /\ build' = [build EXCEPT !.pc = "done", !.outcome = "returned"]
  /\ UNCHANGED <<hvars, calls, last, dumped, walk, dvars>>

NextBuild == BuildStart \/ BuildFile \/ BuildReturn

SpecBuild == Init /\ [][NextBuild]_vars

\* C3: when a dump file fails (unreadable, no JSON, an object without id, or
\* add_label_from_filename raising), the remaining entries are still processed
\* and build_label_hierarchy returns a hierarchy: a finished build has visited
\* every entry of the listing and has returned, not raised.
C3_BuildSurvivesBadFile ==
  build.pc = "done" =>
    /\ build.outcome = "returned"
    /\ build.i = Len(build.listing) + 1

(***************************************************************************)
(* to_dict, on a hierarchy built by calls whose item-ID sets hold up to    *)
(* two IDs.                                                                *)
(***************************************************************************)
\* Every order of a set: the sequences that hold each element once.
Perms(S) ==
  {f \in [1..Cardinality(S) -> S] :
     \A i, j \in 1..Cardinality(S) : i # j => f[i] # f[j]}

\* A variant that leaves one element out of the list.
ListsOfAllButOne(S) ==
  IF S = {} THEN {<<>>} ELSE UNION {Perms(S \ {x}) : x \in S}

\* serialize_email_ids: list(email_ids), the elements in the set's order.
ListsOf(S) == Perms(S)

\* v.model_dump() of the node named k, with the list of its item IDs.
model_dump(k, node, ids) ==
  [name |-> k, parent |-> node.parent, children |-> node.children,
   email_ids |-> ids]

\* to_dict, with the list serialize_email_ids gives for the node of each key.
to_dict(h, lists) ==
  [nodes |-> [k \in DOMAIN h.nodes |-> model_dump(k, h.nodes[k], lists[k])],
   root_labels |-> h.root_labels]

\* The calls that build the hierarchy to_dict is applied to.
DictNames ==
  { <<"LLM">>, <<"good">>, <<"LLM", "_", "good">>, <<"good", "_", "material">> }

DictIds == {1, 2}

DictCalls ==
  {[name |-> n \o Stamp, email_ids |-> S] : n \in DictNames, S \in SUBSET DictIds}

InitDict ==
  /\ \E c1, c2 \in DictCalls :
       LET r1 == add_label_from_filename(EmptyHierarchy, c1.name, c1.email_ids)
           r2 == add_label_from_filename(r1.h, c2.name, c2.email_ids)
       IN /\ nodes = r2.h.nodes
          /\ keys = r2.h.keys
          /\ root_labels = r2.h.root_labels
  /\ calls = 0
  /\ last = NoCall
  /\ walk = NoWalk
  /\ build = NoBuild
  /\ dumped = NoDump
  /\ NoDataset

\* Lines 125-130: to_dict.
ToDict ==
  /\ dumped.pc = "idle"
  /\ \E lists \in [DOMAIN nodes -> UNION {Perms(S) : S \in SUBSET DictIds}] :
       /\ \A k \in DOMAIN nodes : lists[k] \in ListsOf(nodes[k].email_ids)
       /\ dumped' = [pc |-> "done", value |-> to_dict(H, lists)]
  /\ UNCHANGED <<hvars, calls, last, walk, build, dvars>>

NextDict == ToDict

SpecDict == InitDict /\ [][NextDict]_vars

\* The mapping from label to item-ID set read back from a dictionary form.
FromDict(d) == [k \in DOMAIN d.nodes |-> SeqToSet(d.nodes[k].email_ids)]

RoundTrip ==
  dumped.pc = "done" =>
    FromDict(dumped.value) = [k \in DOMAIN nodes |-> nodes[k].email_ids]

\* C16: the mapping from label to item-ID set rebuilt from the "nodes"
\* entries of to_dict(), the email_ids lists read as sets, is the hierarchy's
\* mapping from label name to item-ID set, and to_dict leaves nodes and
\* root_labels as they are.
C16_DictRoundTrip ==
  []RoundTrip /\ [][dumped' # dumped => hvars' = hvars]_vars

\* A dictionary form in which the two IDs of a node are listed in descending
\* order, and from which the sets are recovered.
WitnessC16 ==
  /\ dumped.pc = "done"
  /\ \E k \in DOMAIN nodes :
       /\ nodes[k].email_ids = {1, 2}
       /\ dumped.value.nodes[k].email_ids = <<2, 1>>
  /\ Cardinality(DOMAIN nodes) >= 2
  /\ FromDict(dumped.value) = [k \in DOMAIN nodes |-> nodes[k].email_ids]

(***************************************************************************)
(* Queries on the hierarchy, as functions.                                 *)
(***************************************************************************)
RECURSIVE UpPath(_, _)
\* The walk of get_path_to_root from a node: the node, its parent, ...
UpPath(h, name) ==
  <<name>> \o (IF Truthy(h.nodes[name].parent)
               THEN UpPath(h, h.nodes[name].parent)
               ELSE <<>>)

\* get_path_to_root on a hierarchy without a parent cycle.
get_path_to_root(h, label) ==
  IF label \notin DOMAIN h.nodes THEN <<>> ELSE Reverse(UpPath(h, label))

\* `if path and path not in paths: paths.append(path)`
AddPath(paths, path) ==
  IF path # <<>> /\ path \notin SeqToSet(paths) THEN Append(paths, path) ELSE paths

RECURSIVE AncestorPaths(_, _, _)
\* Lines 116-121: the paths of the ancestors of a node.
AncestorPaths(h, name, paths) ==
  IF Truthy(h.nodes[name].parent)
  THEN AncestorPaths(h, h.nodes[name].parent,
                     AddPath(paths, get_path_to_root(h, h.nodes[name].parent)))
  ELSE paths

RECURSIVE PathsOfLabels(_, _, _)
\* Lines 110-121: the loop over the labels that hold the email.
PathsOfLabels(h, labels, paths) ==
  IF labels = <<>> THEN paths
  ELSE LET path == get_path_to_root(h, labels[1]) IN
       PathsOfLabels(h, Tail(labels),
                     IF path # <<>> /\ path \notin SeqToSet(paths)
                     THEN AncestorPaths(h, labels[1], Append(paths, path))
                     ELSE paths)

RECURSIVE Filter(_, _)
\* The elements of a sequence that belong to a set, in the sequence's order.
Filter(s, set) ==
  IF s = <<>> THEN <<>>
  ELSE (IF s[1] \in set THEN <<s[1]>> ELSE <<>>) \o Filter(Tail(s), set)

\* get_all_paths_for_email
get_all_paths_for_email(h, email_id) ==
  PathsOfLabels(h,
    Filter(h.keys, {l \in DOMAIN h.nodes : email_id \in h.nodes[l].email_ids}),
    <<>>)

(***************************************************************************)
(* Tokenizer and prompt renderer.  A text is a sequence of atoms; the      *)
(* tokenizer counts one token per atom, and for a content text as many     *)
(* tokens as the text is long.                                             *)
(***************************************************************************)
\* The content texts of the analyzed items, by name, and their token lengths:
\* a short text, two different texts of which two examples just fit the
\* budget, a text of which two examples do not, and a text too long for one
\* example.
ContentTokens ==
  [c \in {"short", "bigA", "bigB", "bigC", "huge"} |->
     CASE c = "short" -> 10
       [] c = "bigA" -> 15975
       [] c = "bigB" -> 15975
       [] c = "bigC" -> 15985
       [] c = "huge" -> 17000]

TokenWeight(atom) ==
  IF atom \in DOMAIN ContentTokens THEN ContentTokens[atom] ELSE 1

RECURSIVE count_tokens(_)
\* len(self.tokenizer.encode(text))
count_tokens(text) ==
  IF text = <<>> THEN 0 ELSE TokenWeight(text[1]) + count_tokens(Tail(text))

\* "Here are some examples of content and their hierarchical labels:\n\n"
Preamble == <<"Here", " are", " some", " examples", " of", " content", " and",
              " their", " hierarchical", " labels", ":\n\n">>

\* "Now, please analyze the following content and assign appropriate
\* hierarchical labels:\n\n"
Postamble == <<"Now", ",", " please", " analyze", " the", " following",
               " content", " and", " assign", " appropriate", " hierarchical",
               " labels", ":\n\n">>

\* "\n---\n\n"
Separator == <<"\n", "---", "\n\n">>

\* self.MAX_TOKENS
MAX_TOKENS == 32000

\* FewShotExample(content=..., labels=..., label_paths=...)
FewShotExample(content, labels, label_paths) ==
  [content |-> content, labels |-> labels, label_paths |-> label_paths]

RECURSIVE LabelLines(_, _)
\* Lines 280-284: one line per pair of zip(labels, label_paths).
LabelLines(labels, label_paths) ==
  IF labels = <<>> \/ label_paths = <<>> THEN <<>>
  ELSE (IF labels[1] \in single_labels
        THEN <<"- ">> \o labels[1] \o <<"\n">>
        ELSE <<"- ">> \o Join(label_paths[1], " -> ") \o <<"\n">>)
       \o LabelLines(Tail(labels), Tail(label_paths))

\* format_example
format_example(example) ==
  <<"Content", ": ", example.content, "\n">> \o <<"Labels", ":\n">>
    \o LabelLines(example.labels, example.label_paths)

\* estimate_example_tokens
estimate_example_tokens(example) == count_tokens(format_example(example))

(***************************************************************************)
(* Properties of the hierarchy construction.                               *)
(***************************************************************************)
\* The label path a filename stands for: the names of its non-digit parts.
LabelPath(filename) ==
  LET lp == FilterParts(Split(Basename(filename), "_")).label_parts
  IN [i \in 1..Len(lp) |-> StripExt(lp[i])]

IsSingleName(filename) ==
  CombinedLabel(FilterParts(Split(Basename(filename), "_")).label_parts)
    \in single_labels

\* C1: after any sequence of add_label_from_filename calls, the item-ID set of
\* every node whose parent is a node is a subset of the parent's item-ID set.
C1_AncestorSuperset ==
  \A L \in DOMAIN nodes :
    nodes[L].parent \in DOMAIN nodes =>
      nodes[L].email_ids \subseteq nodes[nodes[L].parent].email_ids

\* C9: add_label_from_filename is idempotent: repeating the last call, with
\* the same filename and the same item IDs, leaves nodes (the mapping and its
\* key order), every parent, children list and item-ID set, and root_labels
\* as they are, and raises exactly when the first call raised.
C9_Idempotent ==
  calls >= 1 =>
    add_label_from_filename(H, last.filename, last.email_ids)
      = [raised |-> last.raised, h |-> H]

\* A second call on a hierarchy of at least three nodes that added item IDs,
\* and whose repetition changes nothing.
WitnessC9 ==
  /\ calls >= 2
  /\ ~last.raised
  /\ last.email_ids # {}
  /\ Len(LabelPath(last.filename)) >= 2
  /\ Cardinality(DOMAIN nodes) > Cardinality(SeqToSet(LabelPath(last.filename)))
  /\ add_label_from_filename(H, last.filename, last.email_ids).h = H

\* The precondition of C10: the first call, on a filename whose non-digit parts
\* are distinct non-empty names that do not start with a single label.
ChainCall ==
  /\ calls = 1
  /\ ~last.raised
  /\ LabelPath(last.filename) # <<>>
  /\ Distinct(LabelPath(last.filename))
  /\ \A i \in 1..Len(LabelPath(last.filename)) :
        LabelPath(last.filename)[i] # <<>>
  /\ ~IsSingleName(last.filename)

IsChain(p, S) ==
  /\ DOMAIN nodes = SeqToSet(p)
  /\ nodes[p[1]].parent = None
  /\ p[1] \in SeqToSet(root_labels)
  /\ \A i \in 1..(Len(p) - 1) :
        /\ nodes[p[i + 1]].parent = p[i]
        /\ nodes[p[i]].children = <<p[i + 1]>>
  /\ nodes[p[Len(p)]].children = <<>>
  /\ \A i \in 1..Len(p) : nodes[p[i]].email_ids = S

SingleOf(filename) ==
  CombinedLabel(FilterParts(Split(Basename(filename), "_")).label_parts)

\* The effect of a call on a single-label filename: only the node of the
\* combined label is created or updated.
SingleEffect(c, S) ==
  /\ DOMAIN nodes' = DOMAIN nodes \cup {c}
  /\ \A n \in DOMAIN nodes \ {c} : nodes'[n] = nodes[n]
  /\ nodes'[c].parent = None
  /\ nodes'[c].children = <<>>
  /\ nodes'[c].email_ids = (IF c \in DOMAIN nodes THEN nodes[c].email_ids ELSE {}) \cup S
  /\ root_labels' = IF c \in DOMAIN nodes THEN root_labels ELSE Append(root_labels, c)
  /\ c \in SeqToSet(root_labels')
  /\ keys' = IF c \in DOMAIN nodes THEN keys ELSE Append(keys, c)

\* C11: a call whose first two non-digit parts, joined by '_' and without the
\* extension, form a single label creates or updates only that node: it has
\* no parent and no children and is listed in root_labels, the supplied item
\* IDs are unioned into its set, and every other node, and the node set
\* otherwise, is as before: no node for a part or for a later part.
C11_SingleLabelOnly ==
  [][(calls' = calls + 1 /\ IsSingleName(last'.filename))
       => SingleEffect(SingleOf(last'.filename), last'.email_ids)]_vars

\* A later call on a single-label filename with a third part: the single
\* label is a root holding the IDs and the third part is no node.
WitnessC11 ==
  /\ calls >= 2
  /\ IsSingleName(last.filename)
  /\ Len(LabelPath(last.filename)) = 3
  /\ last.email_ids # {}
  /\ SingleOf(last.filename) \in DOMAIN nodes
  /\ nodes[SingleOf(last.filename)].email_ids = last.email_ids
  /\ nodes[SingleOf(last.filename)].children = <<>>
  /\ LabelPath(last.filename)[3] \notin DOMAIN nodes
  /\ Cardinality(DOMAIN nodes) >= 2

\* A sequence that ends in L, starts at a node without parent and in which
\* each element is the parent of the next.
IsRootPath(p, L) ==
  /\ p # <<>>
  /\ p[Len(p)] = L
  /\ \A i \in 1..Len(p) : p[i] \in DOMAIN nodes
  /\ nodes[p[1]].parent = None
  /\ \A i \in 1..(Len(p) - 1) : nodes[p[i + 1]].parent = p[i]

\* C12: in every hierarchy built by add_label_from_filename calls,
\* get_path_to_root(L) of a known label L is a sequence that ends in L, whose
\* first element has no parent and in which each element is the parent of the
\* next; for a label that is no node it is the empty sequence.
C12_PathToRoot ==
  \A L \in DOMAIN nodes \cup QueryLabels :
    IF L \in DOMAIN nodes
    THEN IsRootPath(get_path_to_root(H, L), L)
    ELSE get_path_to_root(H, L) = <<>>

\* C17: first registration wins: a call leaves the parent of every node that
\* exists before it as it is, and adds no such node to a children list or to
\* root_labels.
C17_FirstRegistrationWins ==
  [][\A n \in DOMAIN nodes :
       /\ n \in DOMAIN nodes'
       /\ nodes'[n].parent = nodes[n].parent
       /\ \A m \in DOMAIN nodes' :
            n \in SeqToSet(nodes'[m].children)
              => (m \in DOMAIN nodes /\ n \in SeqToSet(nodes[m].children))
       /\ n \in SeqToSet(root_labels') => n \in SeqToSet(root_labels)]_vars

\* A later call that places a label after a part that is not its parent: the
\* label keeps its parent, and is no child of that part and no root.
WitnessC17 ==
  /\ calls >= 2
  /\ ~last.raised
  /\ ~IsSingleName(last.filename)
  /\ \E i \in 1..(Len(LabelPath(last.filename)) - 1) :
       LET A == LabelPath(last.filename)[i]
           B == LabelPath(last.filename)[i + 1]
       IN /\ A # <<>> /\ A # B
          /\ nodes[B].parent \in DOMAIN nodes
          /\ nodes[B].parent # A
          /\ B \notin SeqToSet(nodes[A].children)
          /\ B \notin SeqToSet(root_labels)

\* C18: after any sequence of add_label_from_filename calls, root_labels
\* holds exactly the nodes without parent, B is in children(A) exactly when
\* the parent of B is A, and no name is twice in root_labels or in a
\* children list.
C18_LinksConsistent ==
  /\ SeqToSet(root_labels) = {n \in DOMAIN nodes : nodes[n].parent = None}
  /\ \A A0, B \in DOMAIN nodes :
       B \in SeqToSet(nodes[A0].children) <=> nodes[B].parent = A0
  /\ Distinct(root_labels)
  /\ \A n \in DOMAIN nodes : Distinct(nodes[n].children)

RECURSIVE Ancestors(_)
\* The nodes above a node: its parent, the parent's parent, ...
Ancestors(n) ==
  IF nodes[n].parent \in DOMAIN nodes
  THEN {nodes[n].parent} \cup Ancestors(nodes[n].parent)
  ELSE {}

\* The labels whose item-ID set holds the item.
Holders(item) == {n \in DOMAIN nodes : item \in nodes[n].email_ids}

\* The holders of an item and their ancestors.
HoldersAndAncestors(item) ==
  Holders(item) \cup UNION {Ancestors(n) : n \in Holders(item)}

\* C19: get_all_paths_for_email(item) holds no path twice and holds exactly
\* the root-to-X paths of the labels X that hold the item or are an ancestor
\* of a label that holds it; every non-empty prefix of a returned path is a
\* returned path, and nothing is returned when no label holds the item.
C19_AllPaths ==
  \A item \in IDs \cup {MaxId + 1} :
    LET paths == get_all_paths_for_email(H, item) IN
    /\ Distinct(paths)
    /\ \A i \in 1..Len(paths) :
         \E X \in HoldersAndAncestors(item) : IsRootPath(paths[i], X)
    /\ \A X \in HoldersAndAncestors(item) :
         \E i \in 1..Len(paths) : IsRootPath(paths[i], X)
    /\ \A i \in 1..Len(paths) : \A k \in 1..Len(paths[i]) :
         SubSeq(paths[i], 1, k) \in SeqToSet(paths)
    /\ Holders(item) = {} => paths = <<>>


(***************************************************************************)
(* FewShotDataset: generate_examples, one loop iteration at a time, and    *)
(* generate_prompt.                                                        *)
(***************************************************************************)
\* The dumps the dataset's hierarchy is built from: a filename and its item
\* IDs per dump.  A root with two leaves, a root and a single label that
\* share an item, a chain holding both items, two roots, a chain and a root,
\* no dump at all.
Dump(name, ids) == [name |-> name \o Stamp, email_ids |-> ids]

DumpSets ==
  { <<Dump(<<"LLM", "_", "good">>, {1}), Dump(<<"LLM", "_", "material">>, {2})>>,
    <<Dump(<<"LLM">>, {1, 2}), Dump(<<"good", "_", "material">>, {2})>>,
    <<Dump(<<"LLM", "_", "good">>, {1, 2})>>,
    <<Dump(<<"LLM">>, {1}), Dump(<<"good">>, {2})>>,
    <<Dump(<<"LLM", "_", "good">>, {1}), Dump(<<"material">>, {2})>>,
    <<>> }

RECURSIVE BuildFrom(_, _)
\* The hierarchy build_label_hierarchy returns for readable dumps.
BuildFrom(h, dumps) ==
  IF dumps = <<>> THEN h
  ELSE BuildFrom(add_label_from_filename(h, dumps[1].name, dumps[1].email_ids).h,
                 Tail(dumps))

ItemIDs == {1, 2}

\* The analyzed-item maps: an item is absent, or has a content text, which
\* may be empty.
AnalyzedMaps ==
  UNION {[S -> DOMAIN ContentTokens \cup {""}] : S \in SUBSET ItemIDs}

\* max_examples_per_label: None or a number.
MaxChoices ==
  {[given |-> FALSE, value |-> 0]}
    \cup {[given |-> TRUE, value |-> v] : v \in 0..MaxMax}

\* The orders in which a set of label names may be listed.
SetOrders(h) == {h.keys, Reverse(h.keys)}

InitData ==
  /\ \E dumps \in DumpSets :
       LET h == BuildFrom(EmptyHierarchy, dumps) IN
       /\ nodes = h.nodes
       /\ keys = h.keys
       /\ root_labels = h.root_labels
  /\ calls = 0
  /\ last = NoCall
  /\ walk = NoWalk
  /\ build = NoBuild
  /\ dumped = NoDump
  /\ analyzed_data \in AnalyzedMaps
  /\ label_examples = <<>>
  /\ examples = <<>>
  /\ gen = NoGen
  /\ prompt = NoPrompt

\* A variant that takes the first element of each path as its label.
ExampleOfRoots(h, data, email_id, set_order) ==
  LET label_paths == get_all_paths_for_email(h, email_id)
      labels == Filter(set_order,
                       {label_paths[i][1] : i \in 1..Len(label_paths)})
  IN FewShotExample(data[email_id], labels, label_paths)

\* Lines 180-189: the example of an item; list(set) follows the set order.
ExampleOf(h, data, email_id, set_order) ==
  LET label_paths == get_all_paths_for_email(h, email_id)
      labels == Filter(set_order,
                       {label_paths[i][Len(label_paths[i])] :
                          i \in 1..Len(label_paths)})
  IN FewShotExample(data[email_id], labels, label_paths)

\* A variant that takes a candidate of any length.
FitsAloneAlways(tokens) == TRUE

\* `tokens <= self.MAX_TOKENS // 2`
FitsAlone(tokens) == tokens <= MAX_TOKENS \div 2

RECURSIVE PoolOf(_, _, _, _)
\* Lines 175-194: the candidates of a set of item IDs.  The IDs are taken in
\* ascending order; every non-empty pool is shuffled before its first use.
PoolOf(h, data, ids, set_order) ==
  IF ids = {} THEN <<>>
  ELSE LET email_id == CHOOSE x \in ids : \A y \in ids : x <= y
           rest == PoolOf(h, data, ids \ {email_id}, set_order)
           example == ExampleOf(h, data, email_id, set_order)
           tokens == estimate_example_tokens(example)
       IN IF email_id \in DOMAIN data /\ data[email_id] # ""
             /\ FitsAlone(tokens)
          THEN <<[example |-> example, tokens |-> tokens]>> \o rest
          ELSE rest

\* Lines 166-196: the candidate pools of all labels.
Pools(h, data, set_order) ==
  [label \in DOMAIN h.nodes |->
     PoolOf(h, data, h.nodes[label].email_ids, set_order)]

\* A variant that leaves the keys in their order.
SortBySizeUnsorted(ks, pools, size, largest) == ks

RECURSIVE SortBySize(_, _, _, _)
\* sorted(keys, key=pool size): stable, ascending.
SortBySize(ks, pools, size, largest) ==
  IF size > largest THEN <<>>
  ELSE Filter(ks, {l \in DOMAIN pools : Len(pools[l]) = size})
         \o SortBySize(ks, pools, size + 1, largest)

\* A variant that takes the largest element.
SetMinLargest(S) == CHOOSE x \in S : \A y \in S : x >= y

SetMin(S) == CHOOSE x \in S : \A y \in S : x <= y

SetMax(S) == CHOOSE x \in S : \A y \in S : x >= y

\* The token cost charged before any example: preamble and postamble.
Overhead == count_tokens(Preamble) + count_tokens(<<"\n">> \o Postamble)

\* random.shuffle: every order of the pool.
Shuffles(pool) ==
  {[i \in 1..Len(pool) |-> pool[f[i]]] :
     f \in {g \in [1..Len(pool) -> 1..Len(pool)] :
              \A i, j \in 1..Len(pool) : i # j => g[i] # g[j]}}

\* A variant that looks at the total before the candidate is counted.
OverBudgetStale(total_tokens, tokens) == total_tokens > MAX_TOKENS

\* `total_tokens + tokens > self.MAX_TOKENS`
OverBudget(total_tokens, tokens) == total_tokens + tokens > MAX_TOKENS

\* A variant that never finds a content among the added ones.
AlreadyAddedNever(examples_added, content) == FALSE

\* `example.content not in examples_added`, negated
AlreadyAdded(examples_added, content) == content \in examples_added

\* A variant that stops one example short of the count.
EnoughAddedEarly(added_count, limit) == added_count + 1 >= limit

\* `added_count >= min_examples_per_label` and `>= max_examples_per_label`
EnoughAdded(added_count, limit) == added_count >= limit

\* sum(1 for ex in self.examples if label in ex.labels)
CountListing(exs, label) ==
  Cardinality({i \in 1..Len(exs) : label \in SeqToSet(exs[i].labels)})

\* Lines 166-217: the pools, the maximum in force, the overhead and the
\* label order.  min() of no pool sizes raises ValueError.
GenStart ==
  /\ gen.pc = "idle"
  /\ prompt.pc = "idle"
  /\ \E min \in 0..MaxMin, mx \in MaxChoices, set_order \in SetOrders(H) :
       LET pools == Pools(H, analyzed_data, set_order)
           sizes == {Len(pools[l]) : l \in DOMAIN pools}
       IN /\ label_examples' = pools
          /\ IF ~mx.given /\ sizes = {}
             THEN /\ gen' = [NoGen EXCEPT !.pc = "raised", !.min = min,
                                          !.set_order = set_order]
                  /\ examples' = examples
             ELSE /\ gen' = [pc |-> "min", min |-> min, given |-> mx.given,
                            max |-> IF mx.given THEN mx.value
                                    ELSE SetMax({min, SetMin(sizes)}),
                            set_order |-> set_order,
                            sorted_labels |->
                              SortBySize(keys, pools, 0, SetMax(sizes \cup {0})),
                            li |-> 1, ci |-> 0, added_count |-> 0,
                            total_tokens |-> Overhead,
                            examples_added |-> {}, refused |-> {}]
                  /\ examples' = <<>>
  /\ UNCHANGED <<hvars, calls, last, dumped, walk, build, analyzed_data, prompt>>

\* The frame after the inner loop over a label's candidates has ended.
NextLabel(g) == [g EXCEPT !.li = @ + 1, !.ci = 0]

\* A variant in which the budget warning ends the loop over the labels.
AfterRefusalStop(g) == [g EXCEPT !.li = Len(g.sorted_labels) + 1, !.ci = 0]

\* Lines 237-239 and 259-261: `break` leaves the loop over the candidates
\* of the label; the loop over the labels goes on.
AfterRefusal(g) == NextLabel(g)

\* The frame after one candidate: the next one, or the next label.
NextCandidate(g, pool) ==
  IF g.ci + 1 > Len(pool) THEN NextLabel(g) ELSE [g EXCEPT !.ci = @ + 1]

\* Lines 232-246 and 254-268: one iteration of the loop over the candidates
\* of a label, with the count not to be reached (minimum or maximum).
Candidate(limit) ==
  LET label == gen.sorted_labels[gen.li]
      pool == label_examples[label]
      c == pool[gen.ci]
  IN IF EnoughAdded(gen.added_count, limit)
     THEN /\ gen' = NextLabel(gen)
          /\ examples' = examples
     ELSE IF OverBudget(gen.total_tokens, c.tokens)
     THEN /\ gen' = [AfterRefusal(gen) EXCEPT
                      !.refused = @ \cup {<<gen.pc, label>>}]
          /\ examples' = examples
     ELSE IF ~AlreadyAdded(gen.examples_added, c.example.content)
     THEN /\ gen' = [NextCandidate(gen, pool) EXCEPT
                      !.examples_added = @ \cup {c.example.content},
                      !.total_tokens = @ + c.tokens,
                      !.added_count = @ + 1]
          /\ examples' = Append(examples, c.example)
     ELSE /\ gen' = NextCandidate(gen, pool)
          /\ examples' = examples

\* Lines 220-231: the next label of the minimum pass: an empty pool is
\* reported and skipped, another one is shuffled.
GenMinLabel ==
  /\ gen.pc = "min"
  /\ gen.li <= Len(gen.sorted_labels)
  /\ gen.ci = 0
  /\ LET label == gen.sorted_labels[gen.li] IN
     IF label_examples[label] = <<>>
     THEN /\ gen' = NextLabel(gen)
          /\ label_examples' = label_examples
     ELSE /\ \E shuffled \in Shuffles(label_examples[label]) :
               label_examples' = [label_examples EXCEPT ![label] = shuffled]
          /\ gen' = [gen EXCEPT !.ci = 1, !.added_count = 0]
  /\ UNCHANGED <<hvars, calls, last, dumped, walk, build, analyzed_data, examples, prompt>>

\* Lines 232-246: one candidate of the minimum pass.
GenMinCandidate ==
  /\ gen.pc = "min"
  /\ gen.ci >= 1
  /\ Candidate(gen.min)
  /\ UNCHANGED <<hvars, calls, last, dumped, walk, build, analyzed_data, label_examples,
                 prompt>>

\* Line 249: the top-up pass is entered when tokens are left.
GenMinDone ==
  /\ gen.pc = "min"
  /\ gen.li > Len(gen.sorted_labels)
  /\ gen' = IF gen.total_tokens < MAX_TOKENS
            THEN [gen EXCEPT !.pc = "top", !.li = 1, !.ci = 0]
            ELSE [gen EXCEPT !.pc = "done"]
  /\ UNCHANGED <<hvars, calls, last, dumped, walk, build, analyzed_data, label_examples,
                 examples, prompt>>

\* Lines 250-252: the next label of the top-up pass.
GenTopLabel ==
  /\ gen.pc = "top"
  /\ gen.li <= Len(gen.sorted_labels)
  /\ gen.ci = 0
  /\ LET label == gen.sorted_labels[gen.li] IN
     gen' = IF label_examples[label] = <<>>
            THEN NextLabel(gen)
            ELSE [gen EXCEPT !.ci = 1,
                             !.added_count = CountListing(examples, label)]
  /\ UNCHANGED <<hvars, calls, last, dumped, walk, build, analyzed_data, label_examples,
                 examples, prompt>>

\* Lines 254-268: one candidate of the top-up pass.
GenTopCandidate ==
  /\ gen.pc = "top"
  /\ gen.ci >= 1
  /\ Candidate(gen.max)
  /\ UNCHANGED <<hvars, calls, last, dumped, walk, build, analyzed_data, label_examples,
                 prompt>>

\* Lines 270-274: the distribution is printed and the call returns.
GenTopDone ==
  /\ gen.pc = "top"
  /\ gen.li > Len(gen.sorted_labels)
  /\ gen' = [gen EXCEPT !.pc = "done"]
  /\ UNCHANGED <<hvars, calls, last, dumped, walk, build, analyzed_data, label_examples,
                 examples, prompt>>

RECURSIVE RenderExamples(_, _, _)
\* Lines 305-312: the examples are appended until one does not fit.
RenderExamples(text, total_tokens, selected) ==
  IF selected = <<>> THEN text
  ELSE LET example_text == format_example(selected[1]) \o Separator
           example_tokens == count_tokens(example_text)
       IN IF total_tokens + example_tokens > MAX_TOKENS THEN text
          ELSE RenderExamples(text \o example_text,
                              total_tokens + example_tokens, Tail(selected))

\* Lines 301-317: the prompt of a sample.
RenderPrompt(selected) ==
  RenderExamples(Preamble, count_tokens(Preamble), selected) \o Postamble

\* A variant that raises on no list at all.
NoExamplesNever(exs) == FALSE

\* `not self.examples`
NoExamples(exs) == exs = <<>>

\* Lines 293-295: a count above the number of examples is cut down to it.
Clamp(num_examples, available) ==
  IF num_examples > available THEN available ELSE num_examples

\* A variant that draws with replacement.
SamplesRepeating(exs, k) ==
  {[i \in 1..k |-> exs[f[i]]] : f \in [1..k -> 1..Len(exs)]}

\* random.sample(examples, k): k different positions, in any order.
Samples(exs, k) ==
  {[i \in 1..k |-> exs[f[i]]] :
     f \in {g \in [1..k -> 1..Len(exs)] :
              \A i, j \in 1..k : i # j => g[i] # g[j]}}

\* A variant that takes the sample out of the list.
AfterSampleTaken(exs, selected) ==
  Filter(exs, SeqToSet(exs) \ SeqToSet(selected))

\* random.sample returns a new list and leaves self.examples as it is.
AfterSample(exs, selected) == exs

\* generate_prompt(num_examples)
GeneratePrompt ==
  /\ gen.pc \in {"idle", "done", "raised"}
  /\ prompt.pc = "idle"
  /\ \E num_examples \in 0..MaxNum :
       IF NoExamples(examples)
       THEN /\ prompt' = [NoPrompt EXCEPT !.pc = "raised",
                                          !.num_examples = num_examples]
            /\ examples' = examples
       ELSE \E selected \in Samples(examples,
                                     Clamp(num_examples, Len(examples))) :
              /\ prompt' = [pc |-> "returned", num_examples |-> num_examples,
                            selected |-> selected,
                            text |-> RenderPrompt(selected)]
              /\ examples' = AfterSample(examples, selected)
  /\ UNCHANGED <<hvars, calls, last, dumped, walk, build, analyzed_data,
                 label_examples, gen>>

NextData ==
  \/ GenStart \/ GenMinLabel \/ GenMinCandidate \/ GenMinDone
  \/ GenTopLabel \/ GenTopCandidate \/ GenTopDone
  \/ GeneratePrompt

SpecData == InitData /\ [][NextData]_vars

(***************************************************************************)
(* Properties of the selection and of the prompt.                          *)
(***************************************************************************)
RECURSIVE SumTokens(_)
\* The token costs of a list of examples, added up.
SumTokens(exs) ==
  IF exs = <<>> THEN 0
  ELSE estimate_example_tokens(exs[1]) + SumTokens(Tail(exs))

IsPrefix(s, t) == Len(s) <= Len(t) /\ s = SubSeq(t, 1, Len(s))

\* C4: the prompt generate_prompt returns (preamble, the included examples
\* each followed by the separator, postamble) counts at most MAX_TOKENS
\* tokens.
C4_PromptWithinBudget ==
  prompt.pc = "returned" => count_tokens(prompt.text) <= MAX_TOKENS

BudgetKept ==
  gen.pc \in {"min", "top", "done"} =>
    Overhead + SumTokens(examples) <= MAX_TOKENS

\* C5: at every step of generate_examples and at its end, the token cost of
\* preamble and postamble plus the token costs of the examples selected so
\* far is at most MAX_TOKENS, and the selected list only grows: every step
\* keeps the examples selected before it, in their order.
C5_BudgetAndGrowth ==
  []BudgetKept /\ [][IsPrefix(examples, examples')]_vars

\* A finished run in which the budget refused a candidate.
WitnessC5 ==
  /\ gen.pc = "done"
  /\ gen.refused # {}
  /\ examples # <<>>
  /\ Overhead + SumTokens(examples) <= MAX_TOKENS

\* C6: after generate_examples no two selected examples have the same
\* content text.
C6_NoDuplicateContent ==
  gen.pc = "done" =>
    \A i, j \in 1..Len(examples) :
      i # j => examples[i].content # examples[j].content

\* A finished run on two items of the same content, both candidates of a
\* label, one of them selected.
WitnessC6 ==
  /\ gen.pc = "done"
  /\ DOMAIN analyzed_data = {1, 2}
  /\ analyzed_data[1] = analyzed_data[2]
  /\ \E label \in DOMAIN label_examples : Len(label_examples[label]) = 2
  /\ Len(examples) = 1

\* The budget check did not end the minimum pass of the label.
NotRefused(label) == <<"min", label>> \notin gen.refused

\* C7 as stated: after generate_examples, every label whose pool holds at
\* least min_examples_per_label candidates, and for which the budget is not
\* exhausted when it is processed, is listed by at least
\* min_examples_per_label selected examples.
C7_MinimumReached ==
  gen.pc = "done" =>
    \A label \in DOMAIN nodes :
      (Len(label_examples[label]) >= gen.min /\ NotRefused(label))
        => CountListing(examples, label) >= gen.min

\* The content texts of a label's candidates that only candidates listing the
\* label carry.
OwnContents(label) ==
  {label_examples[label][i].example.content :
     i \in {k \in 1..Len(label_examples[label]) :
              \A l2 \in DOMAIN label_examples :
                \A m \in 1..Len(label_examples[l2]) :
                  label_examples[l2][m].example.content
                      = label_examples[label][k].example.content
                    => label \in SeqToSet(label_examples[l2][m].example.labels)}}

\* C7 as amended: after generate_examples, every label whose pool holds at
\* least min_examples_per_label different content texts carried only by
\* candidates that list the label, and for which the budget is not exhausted
\* when it is processed in the minimum pass, is listed by at least
\* min_examples_per_label selected examples.
C7_MinimumReachedDistinct ==
  gen.pc = "done" =>
    \A label \in DOMAIN nodes :
      (Cardinality(OwnContents(label)) >= gen.min /\ NotRefused(label))
        => CountListing(examples, label) >= gen.min

\* A finished run with a minimum of two in which a label with two contents
\* of its own is listed by two selected examples.
WitnessC7 ==
  /\ gen.pc = "done"
  /\ gen.min = 2
  /\ \E label \in DOMAIN nodes :
       /\ Cardinality(OwnContents(label)) >= 2
       /\ NotRefused(label)
       /\ CountListing(examples, label) >= 2

\* C8: after generate_examples, no label of the hierarchy is listed by more
\* selected examples than the maximum in force (stated for the runs whose
\* minimum does not exceed that maximum).
C8_MaximumRespected ==
  (gen.pc = "done" /\ gen.min <= gen.max) =>
    \A label \in DOMAIN nodes : CountListing(examples, label) <= gen.max

\* C13: generate_prompt on an empty selected list (generate_examples not
\* run, or run with nothing selected) fails and returns no prompt, whatever
\* the requested count.
C13_NoExamplesRaises ==
  (prompt.pc # "idle" /\ examples = <<>>)
    => (prompt.pc = "raised" /\ prompt.text = <<>>)

\* generate_prompt has failed after a finished generate_examples that
\* selected nothing from a hierarchy with nodes, for a positive count.
WitnessC13 ==
  /\ gen.pc = "done"
  /\ DOMAIN nodes # {}
  /\ examples = <<>>
  /\ prompt.pc = "raised"
  /\ prompt.num_examples > 0

\* C14: generate_examples does not raise, whatever the hierarchy, the
\* analyzed-item map and the minimum and maximum are.
C14_GenerateNeverRaises == gen.pc # "raised"

\* The number of times an atom occurs in a text.
Occurrences(text, atom) == Cardinality({i \in 1..Len(text) : text[i] = atom})

\* C15: generate_prompt(n) on a non-empty selected list returns a prompt; a
\* count above the number of selected examples draws what that number would
\* draw; the prompt holds at most min(n, number of selected examples)
\* examples and no selected example twice.
C15_ClampAndSample ==
  (prompt.pc # "idle" /\ examples # <<>>) =>
    /\ prompt.pc = "returned"
    /\ prompt.num_examples > Len(examples)
         => prompt.selected \in Samples(examples, Len(examples))
    /\ Occurrences(prompt.text, "Content")
         <= (IF prompt.num_examples > Len(examples)
             THEN Len(examples) ELSE prompt.num_examples)
    /\ \A i \in 1..Len(examples) :
         Occurrences(prompt.text, examples[i].content) <= 1

\* A prompt asked for more examples than the two selected, holding both.
WitnessC15 ==
  /\ prompt.pc = "returned"
  /\ Len(examples) = 2
  /\ prompt.num_examples > 2
  /\ Occurrences(prompt.text, "Content") = 2

\* The label line format_example is to emit for a path.
ExpectedLine(path) ==
  IF path[Len(path)] \in single_labels
  THEN <<"- ">> \o path[Len(path)] \o <<"\n">>
  ELSE <<"- ">> \o Join(path, " -> ") \o <<"\n">>

RECURSIVE ExpectedLines(_)
ExpectedLines(label_paths) ==
  IF label_paths = <<>> THEN <<>>
  ELSE ExpectedLine(label_paths[1]) \o ExpectedLines(Tail(label_paths))

\* C20: for every example generate_examples builds, the labels and the
\* label paths are as many, the i-th label is the last element of the i-th
\* path, and format_example emits for each path, in order, its line:
\* '- label' for a single label, else the path joined with ' -> '.
C20_LabelsAlignedWithPaths ==
  \A label \in DOMAIN label_examples :
    \A k \in 1..Len(label_examples[label]) :
      LET e == label_examples[label][k].example IN
      /\ Len(e.labels) = Len(e.label_paths)
      /\ \A i \in 1..Len(e.labels) :
           e.labels[i] = e.label_paths[i][Len(e.label_paths[i])]
      /\ format_example(e)
           = <<"Content", ": ", e.content, "\n", "Labels", ":\n">>
               \o ExpectedLines(e.label_paths)
(***************************************************************************)
(* Properties of the pools and of the passes.                              *)
(***************************************************************************)
\* The pools have been built.
PoolsBuilt == gen.pc \in {"min", "top", "done"}

\* The item IDs of a label that are in the analyzed-item map with a
\* non-empty content whose example costs at most half the budget.
Eligible(label) ==
  {id \in nodes[label].email_ids :
     /\ id \in DOMAIN analyzed_data
     /\ analyzed_data[id] # ""
     /\ estimate_example_tokens(
          FewShotExample(analyzed_data[id],
                         ExampleOf(H, analyzed_data, id, gen.set_order).labels,
                         get_all_paths_for_email(H, id)))
          <= 16000}

\* The one-to-one assignments of the positions of a pool to item IDs.
Assignments(pool, ids) ==
  {f \in [1..Len(pool) -> ids] :
     /\ \A i, j \in 1..Len(pool) : i # j => f[i] # f[j]
     /\ \A id \in ids : \E i \in 1..Len(pool) : f[i] = id}

\* C21: after the pool-building pass the pool of each label holds exactly
\* one candidate per item ID of the label that is in the analyzed-item map
\* with non-empty content and costs at most MAX_TOKENS // 2; an absent
\* item, an empty content and a content above half the budget are in no
\* pool.
C21_PoolContents ==
  PoolsBuilt =>
    \A label \in DOMAIN nodes :
      /\ label \in DOMAIN label_examples
      /\ \E f \in Assignments(label_examples[label], Eligible(label)) :
           \A i \in 1..Len(label_examples[label]) :
             /\ label_examples[label][i].example.content = analyzed_data[f[i]]
             /\ label_examples[label][i].example.label_paths
                  = get_all_paths_for_email(H, f[i])
      /\ \A i \in 1..Len(label_examples[label]) :
           /\ label_examples[label][i].example.content # ""
           /\ label_examples[label][i].tokens <= 16000
           /\ label_examples[label][i].tokens
                = estimate_example_tokens(label_examples[label][i].example)

\* A label holds two items, of which one is too long for one example, and
\* its pool holds the other item only.
WitnessC21 ==
  /\ PoolsBuilt
  /\ \E label \in DOMAIN nodes :
       /\ nodes[label].email_ids = {1, 2}
       /\ DOMAIN analyzed_data = {1, 2}
       /\ analyzed_data[1] = "huge"
       /\ Len(label_examples[label]) = 1
       /\ label_examples[label][1].example.content = analyzed_data[2]

\* C23: without a maximum, the maximum in force is the larger of the
\* minimum and the smallest pool size over all labels of the hierarchy, an
\* empty pool counting as size 0.
C23_BalancedMaximum ==
  (PoolsBuilt /\ ~gen.given) =>
    LET sizes == {Len(label_examples[label]) : label \in DOMAIN nodes}
        smallest == CHOOSE x \in sizes : \A y \in sizes : x <= y
    IN /\ sizes # {}
       /\ gen.max = (IF gen.min >= smallest THEN gen.min ELSE smallest)

\* A finished run without a maximum and with a minimum of 0, in which the
\* pools hold one and two candidates and the maximum in force is 1.
WitnessC23 ==
  /\ gen.pc = "done"
  /\ ~gen.given
  /\ gen.min = 0
  /\ gen.max = 1
  /\ \E l1, l2 \in DOMAIN nodes :
       Len(label_examples[l1]) = 1 /\ Len(label_examples[l2]) = 2

\* The label order is ascending in pool size and lists every label once.
LabelsAscending ==
  PoolsBuilt =>
    /\ SeqToSet(gen.sorted_labels) = DOMAIN nodes
    /\ Distinct(gen.sorted_labels)
    /\ \A i, j \in 1..Len(gen.sorted_labels) :
         i < j => Len(label_examples[gen.sorted_labels[i]])
                    <= Len(label_examples[gen.sorted_labels[j]])

\* A step of a pass goes to the same or a later label of the order, an
\* example is added only to the label the pass stands at, a pass ends after
\* the last label, and the top-up pass follows the minimum pass.
PassOrder ==
  /\ (gen.pc \in {"min", "top"} /\ gen'.pc = gen.pc) => gen'.li >= gen.li
  /\ examples' # examples /\ gen.pc \in {"min", "top"} =>
       /\ gen.li \in 1..Len(gen.sorted_labels)
       /\ gen.ci >= 1
       /\ examples' = Append(examples,
             label_examples[gen.sorted_labels[gen.li]][gen.ci].example)
  /\ (gen.pc = "min" /\ gen'.pc # "min") =>
       (gen.li > Len(gen.sorted_labels) /\ gen'.pc \in {"top", "done"})
  /\ (gen.pc = "top" /\ gen'.pc # "top") =>
       (gen.li > Len(gen.sorted_labels) /\ gen'.pc = "done")
  /\ gen.pc = "done" => gen'.pc = "done"

\* C24: in the minimum pass and in the top-up pass the labels are taken in
\* ascending order of pool size: an example is added for a label only
\* after the pass is through with every label of a smaller pool, and the
\* minimum pass is over before the top-up pass begins.
C24_ScarcestFirst ==
  []LabelsAscending /\ [][PassOrder]_vars

\* A finished run in which the order by pool size differs from the key
\* order and examples were added in both passes.
WitnessC24 ==
  /\ gen.pc = "done"
  /\ gen.sorted_labels # keys
  /\ Len(gen.sorted_labels) >= 2
  /\ Len(label_examples[gen.sorted_labels[1]])
       < Len(label_examples[gen.sorted_labels[Len(gen.sorted_labels)]])
  /\ Len(examples) = 2
  /\ gen.min = 1
  /\ gen.max = 2

\* A step in which the budget refuses a candidate adds nothing and goes on
\* to the next label of the same pass; no example is added for a label
\* after the budget refused one of its candidates in the pass.
RefusalStep ==
  /\ gen'.refused # gen.refused =>
       /\ gen.pc \in {"min", "top"}
       /\ gen'.pc = gen.pc
       /\ gen'.li = gen.li + 1
       /\ gen'.refused = gen.refused \cup {<<gen.pc, gen.sorted_labels[gen.li]>>}
       /\ examples' = examples
  /\ (examples' # examples /\ gen.pc \in {"min", "top"}) =>
       <<gen.pc, gen.sorted_labels[gen.li]>> \notin gen.refused

\* C25: in either pass, when a candidate would push the running total over
\* MAX_TOKENS, no further candidate of the label is added in the pass, the
\* following labels are still processed, and a fitting candidate of a later
\* label is still added.
C25_SoftStopPerLabel ==
  [][RefusalStep /\ PassOrder]_vars

\* In the minimum pass the budget refused a candidate of a label, and an
\* example that lists only a later label was added after it.
WitnessC25 ==
  /\ gen.pc = "min"
  /\ \E i, j \in 1..Len(gen.sorted_labels) :
       /\ i < j
       /\ <<"min", gen.sorted_labels[i]>> \in gen.refused
       /\ \E e \in 1..Len(examples) :
            /\ gen.sorted_labels[j] \in SeqToSet(examples[e].labels)
            /\ \A k \in 1..i :
                 gen.sorted_labels[k] \notin SeqToSet(examples[e].labels)

\* C26: generate_examples and generate_prompt leave the hierarchy (nodes
\* with their parents, children lists and item-ID sets, the key order and
\* root_labels) as it is, and generate_prompt leaves the selected examples
\* and the pools as they are.
C26_HierarchyReadOnly ==
  [][/\ hvars' = hvars
     /\ prompt' # prompt =>
          (examples' = examples /\ label_examples' = label_examples)]_vars

\* A prompt of fewer examples than were selected, from a hierarchy with
\* nodes, with the selected list still holding two examples.
WitnessC26 ==
  /\ gen.pc = "done"
  /\ prompt.pc = "returned"
  /\ Len(examples) = 2
  /\ Len(prompt.selected) = 1
  /\ DOMAIN nodes # {}

\* C30: every candidate in the pool of a label lists the label, and every
\* example built has as many labels as label paths, its labels being
\* exactly the last elements of its paths.
C30_LabelsAreLeaves ==
  \A label \in DOMAIN label_examples :
    \A k \in 1..Len(label_examples[label]) :
      LET e == label_examples[label][k].example IN
      /\ label \in SeqToSet(e.labels)
      /\ Len(e.labels) = Len(e.label_paths)
      /\ Distinct(e.labels)
      /\ SeqToSet(e.labels)
           = {e.label_paths[i][Len(e.label_paths[i])] :
                i \in 1..Len(e.label_paths)}

\* A candidate of a label below a root: two paths, the root's and the
\* label's own, and both labels.
WitnessC30 ==
  /\ PoolsBuilt
  /\ \E label \in DOMAIN label_examples :
       /\ nodes[label].parent \in DOMAIN nodes
       /\ Len(label_examples[label]) >= 1
       /\ Len(label_examples[label][1].example.label_paths) = 2
       /\ SeqToSet(label_examples[label][1].example.labels)
            = {label, nodes[label].parent}
(***************************************************************************)
(* Further properties of the hierarchy construction.                       *)
(***************************************************************************)
RECURSIVE NonDigitParts(_)
\* The parts of a filename without those that begin with a digit.
NonDigitParts(parts) ==
  IF parts = <<>> THEN <<>>
  ELSE (IF parts[1] # <<>> /\ parts[1][1] \in DigitAtoms
        THEN <<>> ELSE <<parts[1]>>)
       \o NonDigitParts(Tail(parts))

\* The filename with all parts that begin with a digit removed.
WithoutDigitParts(filename) ==
  Join(NonDigitParts(Split(Basename(filename), "_")), "_")

\* C22: a part that begins with a digit is left out of the label path
\* wherever it stands: a call leaves the hierarchy that the call on the
\* filename without these parts leaves, and creates no node whose name
\* begins with a digit.
C22_DigitPartsAnywhere ==
  [][calls' = calls + 1 =>
       /\ add_label_from_filename(H, WithoutDigitParts(last'.filename),
                                  last'.email_ids).h
            = Hierarchy(nodes', keys', root_labels')
       /\ \A n \in DOMAIN nodes' \ DOMAIN nodes :
            n = <<>> \/ n[1] \notin DigitAtoms]_vars

\* A call on a filename with a date part between two names: the second
\* name is a child of the first and the date part is no node.
WitnessC22 ==
  /\ calls >= 1
  /\ ~last.raised
  /\ \E i, j, k \in 1..Len(Split(Basename(last.filename), "_")) :
       LET parts == Split(Basename(last.filename), "_") IN
       /\ i < j /\ j < k
       /\ parts[j][1] \in DigitAtoms
       /\ StripExt(parts[i]) \in DOMAIN nodes
       /\ StripExt(parts[k]) \in DOMAIN nodes
       /\ nodes[StripExt(parts[k])].parent = StripExt(parts[i])
       /\ StripExt(parts[j]) \notin DOMAIN nodes

\* C27: across add_label_from_filename calls no node is removed and no
\* item ID is removed from a node: after each call every node of before is
\* a node and its item-ID set contains its set of before.
C27_NothingRemoved ==
  [][\A n \in DOMAIN nodes :
       /\ n \in DOMAIN nodes'
       /\ nodes[n].email_ids \subseteq nodes'[n].email_ids]_vars

\* A later call without item IDs on a path of two nodes that hold an ID.
WitnessC27 ==
  /\ calls >= 2
  /\ ~last.raised
  /\ ~IsSingleName(last.filename)
  /\ last.email_ids = {}
  /\ Len(LabelPath(last.filename)) >= 2
  /\ Distinct(LabelPath(last.filename))
  /\ \A i \in 1..Len(LabelPath(last.filename)) :
       /\ LabelPath(last.filename)[i] \in DOMAIN nodes
       /\ nodes[LabelPath(last.filename)[i]].email_ids # {}

RECURSIVE AncestorsWithin(_, _)
\* The nodes reached from a node in at most k steps along the parent links.
AncestorsWithin(n, k) ==
  IF k = 0 \/ nodes[n].parent \notin DOMAIN nodes THEN {}
  ELSE {nodes[n].parent} \cup AncestorsWithin(nodes[n].parent, k - 1)

Acyclic ==
  \A n \in DOMAIN nodes : n \notin AncestorsWithin(n, Cardinality(DOMAIN nodes))

\* C28: in every hierarchy reached from the empty one by
\* add_label_from_filename calls no node is its own ancestor, so
\* get_path_to_root of every label and get_all_paths_for_email of every
\* item end, with at most one element or path per node.
C28_ParentsAcyclic ==
  /\ Acyclic
  /\ \A L \in DOMAIN nodes :
       Len(get_path_to_root(H, L)) <= Cardinality(DOMAIN nodes)
  /\ \A item \in IDs :
       Len(get_all_paths_for_email(H, item)) <= Cardinality(DOMAIN nodes)

\* A call on a filename that names a label twice, on a hierarchy of at
\* least two nodes without a cycle.
WitnessC28 ==
  /\ calls >= 1
  /\ ~last.raised
  /\ ~IsSingleName(last.filename)
  /\ ~Distinct(LabelPath(last.filename))
  /\ Cardinality(DOMAIN nodes) >= 2
  /\ \E n \in DOMAIN nodes : nodes[n].parent \in DOMAIN nodes
  /\ Acyclic

\* The nodes a call names: none when it raises, the single label, or the
\* names of the label path.
NamedNodes(filename) ==
  IF FilterParts(Split(Basename(filename), "_")).raised THEN {}
  ELSE IF IsSingleName(filename) THEN {SingleOf(filename)}
  ELSE SeqToSet(LabelPath(filename))

\* The node names and the item-ID set of each node.
IdsView(h) == [n \in DOMAIN h.nodes |-> h.nodes[n].email_ids]

\* A call adds the nodes it names and unions its item IDs into exactly
\* these nodes.
UnionStep ==
  calls' = calls + 1 =>
    /\ DOMAIN nodes' = DOMAIN nodes \cup NamedNodes(last'.filename)
    /\ \A n \in DOMAIN nodes' :
         nodes'[n].email_ids
           = (IF n \in DOMAIN nodes THEN nodes[n].email_ids ELSE {})
               \cup (IF n \in NamedNodes(last'.filename)
                     THEN last'.email_ids ELSE {})

\* The call made and any other call give the same node names and item-ID
\* sets in either order (on the hierarchies of up to MaxSwap earlier calls).
SwapStep ==
  (calls' = calls + 1 /\ calls <= MaxSwap) =>
    \A filename \in FileNames, email_ids \in IdLists :
      IdsView(add_label_from_filename(
                Hierarchy(nodes', keys', root_labels'), filename, email_ids).h)
        = IdsView(add_label_from_filename(
                    add_label_from_filename(H, filename, email_ids).h,
                    last'.filename, last'.email_ids).h)

====
